---------------------------- MODULE Spec2Model ----------------------------
(***************************************************************************)
(* fractal-rust: the escape-time renderer of src/src/main.rs and           *)
(* src/src/fractal.rs.                                                     *)
(*                                                                         *)
(* Numbers.  The program computes in f64: binary floating point, every     *)
(* operation rounded to nearest, ties to even.  TLC has 32-bit integers,   *)
(* so the model keeps the format and shrinks its two parameters: a float   *)
(* is an integer count of units of 2^-FracBits (the smallest subnormal     *)
(* step) with at most MantBits significant bits.  f64 is the same format   *)
(* with 53 and 1074.  Infinities and NaN are left out: every division of   *)
(* the model has a non-zero divisor and every value stays far below the    *)
(* overflow threshold.  The Newton evaluator (complex powf) is left out.   *)
(***************************************************************************)
EXTENDS Integers, Sequences, FiniteSets

VARIABLES
    pc,             \* position of main, or of the single call of MapSpec / EvalSpec
    bounds,         \* <<width, height>>, main.rs:55
    threads,        \* main.rs:65
    upper_left,     \* main.rs:56
    lower_right,    \* main.rs:57
    method,         \* main.rs:54
    seed,           \* main.rs:58
    limit,          \* main.rs:59
    rows_per_band,  \* main.rs:66
    results,        \* main.rs:62, the Result Buffer
    bands,          \* main.rs:68, the chunks: <<[start, len]>>
    workers,        \* the scoped threads spawned so far, main.rs:79
    owner,          \* history: owner[k] = set of workers that wrote results[k]
    pixels,         \* main.rs:101
    arg,            \* argument of the single call (MapSpec: pixel, EvalSpec: c)
    ret             \* its result

vars == <<pc, bounds, threads, upper_left, lower_right, method, seed, limit,
          rows_per_band, results, bands, workers, owner, pixels, arg, ret>>

---------------------------------------------------------------------------
(* Bounds of the model *)

MantBits == 8
FracBits == 8
MaxWidth == 2
MaxHeight == 4
MaxThreads == 2
MaxLimit == 2
MaxDim == 3
MaxEvalLimit == 4

(* Program constants *)

ByteRange == 256

---------------------------------------------------------------------------
(* f64 *)

Scale == 2 ^ FracBits

Abs(n) == IF n < 0 THEN -n ELSE n

Sgn(n) == IF n < 0 THEN -1 ELSE 1

\* The spacing of the floats around a magnitude of m units: 2^e for the
\* least e that leaves m at most MantBits significant bits.
Quantum(m) ==
    2 ^ (CHOOSE e \in 0..(30 - MantBits) :
            m < 2 ^ (MantBits + e) /\ (e = 0 \/ m >= 2 ^ (MantBits + e - 1)))

\* The float nearest the rational n/d units (d > 0), ties to even.
RoundRatio(n, d) ==
    LET a == Abs(n)
        D == d * Quantum(a \div d)
        k == a \div D
        r == a % D
        up == (2 * r > D) \/ (2 * r = D /\ k % 2 = 1)
    IN  Sgn(n) * (IF up THEN k + 1 ELSE k) * (D \div d)

FAdd(a, b) == RoundRatio(a + b, 1)

FSub(a, b) == RoundRatio(a - b, 1)

FMul(a, b) == RoundRatio(a * b, Scale)

FDiv(a, b) == RoundRatio(Sgn(b) * a * Scale, Abs(b))

\* `n as f64`
AsF64(n) == RoundRatio(n * Scale, 1)

\* f64::from_str of the decimal n/d
Flt(n, d) == RoundRatio(n * Scale, d)

Complex(re, im) == [re |-> re, im |-> im]

CAdd(a, b) == Complex(FAdd(a.re, b.re), FAdd(a.im, b.im))

CMul(a, b) ==
    Complex(FSub(FMul(a.re, b.re), FMul(a.im, b.im)),
            FAdd(FMul(a.re, b.im), FMul(a.im, b.re)))

norm_sqr(z) == FAdd(FMul(z.re, z.re), FMul(z.im, z.im))

---------------------------------------------------------------------------
(* fractal.rs *)

FractalResult(escape, value) == [escape |-> escape, value |-> value]

zero == FractalResult(0, Complex(0, 0))

\* pixel_to_point without the inversion of the imaginary axis
pixel_to_point_upright(b, pixel, ul, lr) ==
    LET width == FSub(lr.re, ul.re)
        height == FSub(ul.im, lr.im)
    IN  Complex(FAdd(ul.re, FDiv(FMul(AsF64(pixel[1]), width), AsF64(b[1]))),
                FAdd(ul.im, FDiv(FMul(AsF64(pixel[2]), height), AsF64(b[2]))))

pixel_to_point(b, pixel, ul, lr) ==
    LET width == FSub(lr.re, ul.re)
        height == FSub(ul.im, lr.im)
    IN  Complex(FAdd(ul.re, FDiv(FMul(AsF64(pixel[1]), width), AsF64(b[1]))),
                FSub(ul.im, FDiv(FMul(AsF64(pixel[2]), height), AsF64(b[2]))))

\* the raw iteration count
EscapeRawCount(lim, i) == i

\* escape: limit - i
Escape(lim, i) == lim - i

\* One turn of `for i in 0..limit`: z = z * z + k; if z.norm_sqr() > 4.0
\* { return FractalResult { escape: limit - i, value: z } }.  A loop that
\* has returned takes no further turn.
LoopStep(st, k, lim) ==
    IF st.returned THEN st
    ELSE LET z1 == CAdd(CMul(st.z, st.z), k)
         IN  IF norm_sqr(z1) > Flt(4, 1)
             THEN [z |-> z1, i |-> st.i, returned |-> TRUE,
                   out |-> FractalResult(Escape(lim, st.i), z1)]
             ELSE [z |-> z1, i |-> st.i + 1, returned |-> FALSE, out |-> st.out]

\* n turns of the loop (halved, to keep the evaluation shallow)
RECURSIVE Turns(_, _, _, _)
Turns(n, st, k, lim) ==
    IF n = 0 THEN st
    ELSE IF n = 1 THEN LoopStep(st, k, lim)
    ELSE LET mid == Turns(n \div 2, st, k, lim)
         IN  IF mid.returned THEN mid ELSE Turns(n - n \div 2, mid, k, lim)

\* The loop from z, and the result after it: escape 0 and the last z.
EscapeLoop(z, k, lim) ==
    LET end == Turns(lim, [z |-> z, i |-> 0, returned |-> FALSE, out |-> zero], k, lim)
    IN  IF end.returned THEN end.out ELSE FractalResult(0, end.z)

mandelbrot(c, s, lim) == EscapeLoop(s, c, lim)

julia(start, s, lim) == EscapeLoop(start, s, lim)

calculate(m, c, s, lim) ==
    IF m = "MANDELBROT" THEN mandelbrot(c, s, lim) ELSE julia(c, s, lim)


---------------------------------------------------------------------------
(* Inputs: what the command line can hold *)

Methods == {"MANDELBROT", "JULIA"}

\* UPPERLEFT LOWERRIGHT pairs: the whole set, and the usage text's zoom (main.rs:42).
Corners ==
    { <<Complex(Flt(-2, 1), Flt(1, 1)), Complex(Flt(1, 1), Flt(-1, 1))>>,
      <<Complex(Flt(-120, 100), Flt(35, 100)), Complex(Flt(-1, 1), Flt(20, 100))>> }

Seeds == { Complex(0, 0), Complex(Flt(-8, 10), Flt(156, 1000)) }

NoCall == "none"

---------------------------------------------------------------------------
(* main.rs: main *)

Min(a, b) == IF a < b THEN a ELSE b

\* let rows_per_band = bounds.1 / threads + 1;
RowsPerBand(height, t) == height \div t + 1

\* chunks_mut with every chunk after the first starting one element early
chunks_overlapping(len, size) ==
    [j \in 1..((len + size - 1) \div size) |->
        [start |-> (j - 1) * size - (IF j > 1 THEN 1 ELSE 0),
         len |-> Min(size, len - (j - 1) * size)]]

\* slice::chunks_mut: consecutive chunks of `size` elements, the last one
\* holding what is left.  Called with size > 0 (size = 0 panics).
chunks_mut(len, size) ==
    [j \in 1..((len + size - 1) \div size) |->
        [start |-> (j - 1) * size, len |-> Min(size, len - (j - 1) * size)]]

\* BandTop counting the bands from one
BandTopOneBased(rpb, i) == rpb * (i + 1)

\* let top = rows_per_band * i;
BandTop(rpb, i) == rpb * i

\* let height = band.len() / bounds.0;
BandHeight(band, width) == band.len \div width

\* a scope that returns without joining
NoJoin(ws) == TRUE

\* crossbeam::scope joins every thread spawned in it before it returns.
AllJoined(ws) == \A w \in DOMAIN ws : ws[w].status \in {"done", "panicked"}

\* a scope that looks at the first thread's result only
FirstFailed(ws) == Len(ws) > 0 /\ ws[1].status = "panicked"

\* crossbeam::scope returns Err when a joined thread has panicked.
ScopeFailed(ws) == \E w \in DOMAIN ws : ws[w].status = "panicked"

\* res.escape as u8
AsU8(n) == n % ByteRange

Init ==
    /\ pc = "main"
    /\ bounds \in (0..MaxWidth) \X (0..MaxHeight)
    /\ threads \in 1..MaxThreads
    /\ \E cs \in Corners : upper_left = cs[1] /\ lower_right = cs[2]
    /\ method \in Methods
    /\ seed \in Seeds
    /\ limit \in 1..MaxLimit
    /\ rows_per_band = 0
    /\ results = <<>>
    /\ bands = <<>>
    /\ workers = <<>>
    /\ owner = <<>>
    /\ pixels = <<>>
    /\ arg = NoCall
    /\ ret = NoCall

inputs == <<bounds, threads, upper_left, lower_right, method, seed, limit>>

\* main.rs:62-66
Alloc ==
    /\ pc = "main"
    /\ results' = [k \in 1..(bounds[1] * bounds[2]) |-> zero]
    /\ owner' = [k \in 1..(bounds[1] * bounds[2]) |-> {}]
    /\ rows_per_band' = RowsPerBand(bounds[2], threads)
    /\ pc' = "chunks"
    /\ UNCHANGED <<inputs, bands, workers, pixels, arg, ret>>

\* main.rs:68-69
Chunks ==
    /\ pc = "chunks"
    /\ rows_per_band * bounds[1] > 0
    /\ bands' = chunks_mut(Len(results), rows_per_band * bounds[1])
    /\ pc' = "scope"
    /\ UNCHANGED <<inputs, rows_per_band, results, workers, owner, pixels, arg, ret>>

\* main.rs:69, chunks_mut(0): "chunk size must be non-zero"
ChunksPanic ==
    /\ pc = "chunks"
    /\ rows_per_band * bounds[1] = 0
    /\ pc' = "panicked"
    /\ UNCHANGED <<inputs, rows_per_band, results, bands, workers, owner, pixels, arg, ret>>

\* main.rs:71-90, one turn of the loop: the band's geometry, then the spawn
Spawn ==
    /\ pc = "scope"
    /\ Len(workers) < Len(bands)
    /\ LET i == Len(workers)
           band == bands[i + 1]
           top == BandTop(rows_per_band, i)
           height == BandHeight(band, bounds[1])
       IN  workers' = Append(workers,
              [status |-> "spawned",
               band |-> i + 1,
               top |-> top,
               band_bounds |-> <<bounds[1], height>>,
               band_upper_left |->
                   pixel_to_point(bounds, <<0, top>>, upper_left, lower_right),
               band_lower_right |->
                   pixel_to_point(bounds, <<bounds[1], top + height>>,
                                  upper_left, lower_right),
               next |-> 0])
    /\ UNCHANGED <<pc, inputs, rows_per_band, results, bands, owner, pixels, arg, ret>>

\* render_to_result: the precondition on the buffer it is given
RenderEnter(w) ==
    /\ w \in DOMAIN workers
    /\ workers[w].status = "spawned"
    /\ LET me == workers[w]
           ok == bands[me.band].len = me.band_bounds[1] * me.band_bounds[2]
       IN  workers' = [workers EXCEPT
                          ![w].status = IF ok THEN "running" ELSE "panicked"]
    /\ UNCHANGED <<pc, inputs, rows_per_band, results, bands, owner, pixels, arg, ret>>

\* render_to_result: one pixel, row-major; an index past the slice panics
RenderPixel(w) ==
    /\ w \in DOMAIN workers
    /\ workers[w].status = "running"
    /\ LET me == workers[w]
           width == me.band_bounds[1]
           row == me.next \div width
           column == me.next % width
           k == row * width + column
           point == pixel_to_point(me.band_bounds, <<column, row>>,
                                   me.band_upper_left, me.band_lower_right)
       IN  /\ me.next < width * me.band_bounds[2]
           /\ IF k < bands[me.band].len
              THEN /\ results' = [results EXCEPT
                          ![bands[me.band].start + k + 1] =
                              calculate(method, point, seed, limit)]
                   /\ owner' = [owner EXCEPT
                          ![bands[me.band].start + k + 1] = @ \cup {w}]
                   /\ workers' = [workers EXCEPT ![w].next = @ + 1]
              ELSE /\ workers' = [workers EXCEPT ![w].status = "panicked"]
                   /\ UNCHANGED <<results, owner>>
    /\ UNCHANGED <<pc, inputs, rows_per_band, bands, pixels, arg, ret>>

\* render_to_result returns and the thread ends
RenderReturn(w) ==
    /\ w \in DOMAIN workers
    /\ workers[w].status = "running"
    /\ workers[w].next = workers[w].band_bounds[1] * workers[w].band_bounds[2]
    /\ workers' = [workers EXCEPT ![w].status = "done"]
    /\ UNCHANGED <<pc, inputs, rows_per_band, results, bands, owner, pixels, arg, ret>>

\* a panic unwinding out of the spawned closure
WorkerPanic(w) ==
    /\ w \in DOMAIN workers
    /\ workers[w].status = "running"
    /\ workers' = [workers EXCEPT ![w].status = "panicked"]
    /\ UNCHANGED <<pc, inputs, rows_per_band, results, bands, owner, pixels, arg, ret>>

\* main.rs:91, 96: the scope ends with Ok
ScopeOk ==
    /\ pc = "scope"
    /\ Len(workers) = Len(bands)
    /\ AllJoined(workers)
    /\ ~ScopeFailed(workers)
    /\ pc' = "convert"
    /\ UNCHANGED <<inputs, rows_per_band, results, bands, workers, owner, pixels, arg, ret>>

\* main.rs:92-95: the scope ends with Err, eprintln! and exit(1)
ScopeErr ==
    /\ pc = "scope"
    /\ Len(workers) = Len(bands)
    /\ AllJoined(workers)
    /\ ScopeFailed(workers)
    /\ pc' = "exit1"
    /\ UNCHANGED <<inputs, rows_per_band, results, bands, workers, owner, pixels, arg, ret>>

\* main.rs:101
Convert ==
    /\ pc = "convert"
    /\ pixels' = [k \in DOMAIN results |-> AsU8(results[k].escape)]
    /\ pc' = "write"
    /\ UNCHANGED <<inputs, rows_per_band, results, bands, workers, owner, arg, ret>>

\* main.rs:106, write_image returns Ok
WriteImage ==
    /\ pc = "write"
    /\ pc' = "done"
    /\ UNCHANGED <<inputs, rows_per_band, results, bands, workers, owner, pixels, arg, ret>>

\* main.rs:106, write_image returns Err and expect panics
WriteImageErr ==
    /\ pc = "write"
    /\ pc' = "panicked"
    /\ UNCHANGED <<inputs, rows_per_band, results, bands, workers, owner, pixels, arg, ret>>

Next ==
    \/ Alloc
    \/ Chunks
    \/ ChunksPanic
    \/ Spawn
    \/ \E w \in 1..MaxThreads : RenderEnter(w)
    \/ \E w \in 1..MaxThreads : RenderPixel(w)
    \/ \E w \in 1..MaxThreads : RenderReturn(w)
    \/ \E w \in 1..MaxThreads : WorkerPanic(w)
    \/ ScopeOk
    \/ ScopeErr
    \/ Convert
    \/ WriteImage
    \/ WriteImageErr

Spec == Init /\ [][Next]_vars

---------------------------------------------------------------------------
(* Claims checked under Spec *)

Finished == pc \in {"convert", "write", "done"}

\* The buffer a single unbanded pass over the whole image produces.
SinglePass ==
    [k \in 1..(bounds[1] * bounds[2]) |->
        calculate(method,
                  pixel_to_point(bounds, <<(k - 1) % bounds[1], (k - 1) \div bounds[1]>>,
                                 upper_left, lower_right),
                  seed, limit)]

\* C1: when the scope has ended without a panic, the Result Buffer the band
\* workers produced equals, index by index, the buffer of a single unbanded
\* pass (each band-local point equals the full-image point of the same pixel).
C1_BandedEqualsSinglePass == Finished => results = SinglePass


Chunked == pc \notin {"main", "chunks"} /\ bounds[1] > 0

\* Buffer index k (from 0) lies in chunk j.
InBand(j, k) == bands[j].start <= k /\ k < bands[j].start + bands[j].len

Live(w) == workers[w].status \in {"spawned", "running"}

\* C2: the chunks partition the Result Buffer (every index in exactly one
\* chunk, chunks contiguous and ascending from 0), no two workers hold
\* overlapping index ranges, and every write lands in the writer's own chunk.
C2_BandsPartition ==
    Chunked =>
        /\ \A k \in 0..(bounds[1] * bounds[2] - 1) :
              Cardinality({j \in DOMAIN bands : InBand(j, k)}) = 1
        /\ \A j \in DOMAIN bands :
              /\ bands[j].len > 0
              /\ bands[j].start = IF j = 1 THEN 0
                                  ELSE bands[j - 1].start + bands[j - 1].len
        /\ \A a, b \in DOMAIN workers :
              a # b => \A k \in DOMAIN results :
                          ~(InBand(workers[a].band, k - 1) /\ InBand(workers[b].band, k - 1))
        /\ \A k \in DOMAIN owner :
              \A w \in owner[k] : InBand(workers[w].band, k - 1)

\* Two workers run at once and both have written.
C2_Witness ==
    \E a, b \in DOMAIN workers :
        /\ a # b
        /\ workers[a].status = "running" /\ workers[a].next > 0
        /\ workers[b].status = "running" /\ workers[b].next > 0

CeilDiv(a, b) == (a + b - 1) \div b

\* C3: rows_per_band is ceil(height / T), and every chunk but the last
\* holds rows_per_band * width elements.
C3_RowsPerBandIsCeil ==
    (Chunked /\ bounds[2] > 0) =>
        /\ rows_per_band = CeilDiv(bounds[2], threads)
        /\ \A j \in DOMAIN bands :
              j < Len(bands) => bands[j].len = rows_per_band * bounds[1]

\* C5: the conversion to pixel bytes and the image write happen only when
\* every band has been spawned and every spawned worker has ended, so every
\* buffer entry has been written by then.
C5_ConvertAfterJoin ==
    (Finished \/ pixels # <<>>) =>
        /\ Len(workers) = Len(bands)
        /\ \A w \in DOMAIN workers : ~Live(w)
        /\ \A k \in DOMAIN owner : owner[k] # {}

\* The conversion is about to start after two workers have run.
C5_Witness ==
    /\ pc = "convert"
    /\ Len(workers) = 2
    /\ \A k \in DOMAIN owner : owner[k] # {}

\* C6: once a worker has panicked the render never converts the buffer nor
\* writes an image: main stays in the scope until it ends with exit(1).
C6_PanicFailsRender ==
    (\E w \in DOMAIN workers : workers[w].status = "panicked") =>
        /\ pc \in {"scope", "exit1"}
        /\ pixels = <<>>

\* The render has failed although another worker completed its band.
C6_Witness ==
    /\ pc = "exit1"
    /\ \E w \in DOMAIN workers : workers[w].status = "panicked"
    /\ \E w \in DOMAIN workers : workers[w].status = "done"

\* C7: with a zero width or height no band is dispatched and main never
\* reaches the pixel conversion and the image write.
C7_ZeroBoundsRejected ==
    (bounds[1] = 0 \/ bounds[2] = 0) =>
        /\ workers = <<>>
        /\ ~Finished

\* C9: every band handed to a worker is a whole number of rows, at least
\* one, its length is band_bounds.width * band_bounds.height, and its rows
\* lie inside the image: top + height <= bounds.height.
C9_BandGeometry ==
    \A w \in DOMAIN workers :
        LET band == bands[workers[w].band]
            bb == workers[w].band_bounds
        IN  /\ band.len % bounds[1] = 0
            /\ bb[1] = bounds[1]
            /\ bb[2] >= 1
            /\ bb[1] * bb[2] = band.len
            /\ workers[w].top + bb[2] <= bounds[2]

\* A second, shorter band has been handed to its worker.
C9_Witness ==
    /\ Len(workers) = 2
    /\ workers[2].band_bounds[2] < workers[1].band_bounds[2]
    /\ workers[2].status = "running"


---------------------------------------------------------------------------
(* pixel_to_point on its own: one call per behaviour *)

\* The test's geometry, fractal.rs:198-201, and its result
TestBounds == <<100, 100>>

TestPixel == <<25, 75>>

TestCorners == <<Complex(Flt(-1, 1), Flt(1, 1)), Complex(Flt(1, 1), Flt(-1, 1))>>

TestPoint == Complex(Flt(-5, 10), Flt(-5, 10))

\* The corner pairs of Corners, the test's, the usage text's Julia view, a wider
\* view, and one mirrored pair (lower_right left of and above upper_left).
MapCorners ==
    Corners \cup
    { TestCorners,
      <<Complex(Flt(-150, 100), Flt(1, 1)), Complex(Flt(15, 10), Flt(-1, 1))>>,
      <<Complex(Flt(-25, 10), Flt(12, 10)), Complex(Flt(7, 10), Flt(-12, 10))>>,
      <<Complex(Flt(1, 1), Flt(-1, 1)), Complex(Flt(-2, 1), Flt(1, 1))>> }

MapInit ==
    /\ pc = "map_call"
    /\ \/ /\ bounds \in (1..MaxDim) \X (1..MaxDim)
          /\ arg \in (0..bounds[1]) \X (0..bounds[2])
       \/ /\ bounds = TestBounds
          /\ arg \in {<<0, 0>>, TestPixel, TestBounds}
    /\ \E cs \in MapCorners : upper_left = cs[1] /\ lower_right = cs[2]
    /\ threads = 1
    /\ method = "MANDELBROT"
    /\ seed = Complex(0, 0)
    /\ limit = 0
    /\ rows_per_band = 0
    /\ results = <<>>
    /\ bands = <<>>
    /\ workers = <<>>
    /\ owner = <<>>
    /\ pixels = <<>>
    /\ ret = NoCall

MapCall ==
    /\ pc = "map_call"
    /\ ret' = pixel_to_point(bounds, arg, upper_left, lower_right)
    /\ pc' = "map_return"
    /\ UNCHANGED <<inputs, rows_per_band, results, bands, workers, owner, pixels, arg>>

MapNext == MapCall

MapSpec == MapInit /\ [][MapNext]_vars

---------------------------------------------------------------------------
(* Fractal::calculate and the conversion of its escape value on their own *)

\* c (Mandelbrot) or the start value (Julia)
Points ==
    { Complex(Flt(re, 2), Flt(im, 2)) : re \in {-4, -2, -1, 0, 1, 2, 6}, im \in {0, 1, 2} }

EvalLimits == (0..MaxEvalLimit) \cup {ByteRange - 1, ByteRange}

EvalInit ==
    /\ pc = "eval_call"
    /\ method \in Methods
    /\ arg \in Points
    /\ seed \in Seeds
    /\ limit \in EvalLimits
    /\ bounds = <<1, 1>>
    /\ threads = 1
    /\ upper_left = Complex(0, 0)
    /\ lower_right = Complex(0, 0)
    /\ rows_per_band = 0
    /\ results = <<>>
    /\ bands = <<>>
    /\ workers = <<>>
    /\ owner = <<>>
    /\ pixels = <<>>
    /\ ret = NoCall

\* fractal.rs:45-51
EvalCall ==
    /\ pc = "eval_call"
    /\ ret' = calculate(method, arg, seed, limit)
    /\ pc' = "eval_return"
    /\ UNCHANGED <<inputs, rows_per_band, results, bands, workers, owner, pixels, arg>>

\* main.rs:101 on the one result
EvalToByte ==
    /\ pc = "eval_return"
    /\ pixels' = <<AsU8(ret.escape)>>
    /\ pc' = "eval_byte"
    /\ UNCHANGED <<inputs, rows_per_band, results, bands, workers, owner, arg, ret>>

EvalNext == EvalCall \/ EvalToByte

EvalSpec == EvalInit /\ [][EvalNext]_vars


---------------------------------------------------------------------------
(* Claims checked under EvalSpec *)

Bailed(z) == norm_sqr(z) > Flt(4, 1)

\* The iterates z_1, z_2, .. of z -> z * z + k from z, up to z_n or to the
\* first one with |z|^2 > 4, whichever comes first.
RECURSIVE Orbit(_, _, _)
Orbit(z, k, n) ==
    IF n = 0 THEN <<>>
    ELSE IF n = 1 THEN <<CAdd(CMul(z, z), k)>>
    ELSE LET h == Orbit(z, k, n \div 2)
         IN  IF Bailed(h[Len(h)]) THEN h
             ELSE h \o Orbit(h[Len(h)], k, n - n \div 2)

C10_SentinelSurvives ==
    pc = "eval_byte" => ((pixels[1] = 0) <=> (ret.escape = 0))


---------------------------------------------------------------------------
(* Claims checked under MapSpec *)

Max(a, b) == IF a < b THEN b ELSE a

\* x lies within six units in the last place of the larger of a and b
\* from the rational n/d (d > 0).
Near(x, n, d, a, b) ==
    Abs(x * d - n) <= 6 * Quantum(Max(Abs(a), Abs(b))) * d

\* The Image Geometry ordering of the corners
Ordered == lower_right.re > upper_left.re /\ upper_left.im > lower_right.im

RightOf == pixel_to_point(bounds, <<arg[1] + 1, arg[2]>>, upper_left, lower_right)

Below == pixel_to_point(bounds, <<arg[1], arg[2] + 1>>, upper_left, lower_right)

\* C8 as amended: pixel_to_point is the affine map
\*   re = upper_left.re + column * (lower_right.re - upper_left.re) / width
\*   im = upper_left.im - row * (upper_left.im - lower_right.im) / height
\* up to floating-point rounding; pixel (0,0) maps to upper_left exactly and
\* pixel (width, height) to lower_right up to rounding; the test's example
\* gives (-0.5,-0.5) exactly; with ordered corners the real part does not
\* fall with the column and the imaginary part does not rise with the row.
C8_AffineWithinRounding ==
    pc = "map_return" =>
        /\ Near(ret.re,
                upper_left.re * bounds[1] + arg[1] * (lower_right.re - upper_left.re),
                bounds[1], upper_left.re, lower_right.re)
        /\ Near(ret.im,
                upper_left.im * bounds[2] - arg[2] * (upper_left.im - lower_right.im),
                bounds[2], upper_left.im, lower_right.im)
        /\ arg = <<0, 0>> => ret = upper_left
        /\ arg = bounds =>
              /\ Near(ret.re, lower_right.re, 1, upper_left.re, lower_right.re)
              /\ Near(ret.im, lower_right.im, 1, upper_left.im, lower_right.im)
        /\ (bounds = TestBounds /\ arg = TestPixel
              /\ <<upper_left, lower_right>> = TestCorners) => ret = TestPoint
        /\ Ordered => (RightOf.re >= ret.re /\ Below.im <= ret.im)

\* The corner pixel (width, height) has been mapped, next to but not onto
\* lower_right.
C8_Witness ==
    /\ pc = "map_return"
    /\ arg = bounds
    /\ Ordered
    /\ ret # lower_right

\* C8 as stated: pixel (0,0) maps to upper_left, pixel (width, height) maps
\* to lower_right, the test's example gives (-0.5,-0.5), the real part grows
\* with the column and the imaginary part falls with the row.
C8_AffineExact ==
    pc = "map_return" =>
        /\ arg = <<0, 0>> => ret = upper_left
        /\ arg = bounds => ret = lower_right
        /\ (bounds = TestBounds /\ arg = TestPixel
              /\ <<upper_left, lower_right>> = TestCorners) => ret = TestPoint
        /\ Ordered => (RightOf.re >= ret.re /\ Below.im <= ret.im)

===========================================================================
